---- MODULE Spec2Model ----
(***************************************************************************)
(* A model of cacao's delegate-subclass registration and callback          *)
(* dispatch: the class registry (textview/appkit.rs), the construction,    *)
(* handle cloning and drop of TextView / ListView wrappers                 *)
(* (textview/mod.rs, listview/mod.rs) and the trampolines that recover a   *)
(* delegate from the pointer ivar of a native view.                        *)
(***************************************************************************)
EXTENDS Integers, Sequences, FiniteSets, TLC

\* ------------------------------------------------------------------ bounds
MaxThreads == 2
MaxCalls == 2
MaxViews == 2
MaxHandles == 2
MaxRows == 2
MaxOps == 1
MaxVendors == 2
MaxLen == 3
MaxObjects == 2

\* --------------------------------------------------------------- constants
Null == 0
YES == 1
NO == 0

Threads == 1..MaxThreads
Views == 1..MaxViews
Addrs == 1..MaxViews

BACKGROUND_COLOR == "cacaoBackgroundColor"
TEXTVIEW_DELEGATE_PTR == "rstViewDelegatePtr"
LISTVIEW_DELEGATE_PTR == "rstListViewDelegatePtr"

\* The behaviour types used as delegates.  ConsoleLogger is the delegate of
\* examples/text_view.rs (it keeps the default text_should_begin_editing);
\* Gate refuses to begin editing an empty text; Faulty is a delegate whose
\* callbacks can panic; GateCopy is another type whose NAME repeats Gate's
\* (NAME "*must* be unique per-type", which nothing checks); RowSource is a
\* list delegate.
TextTypes == {"ConsoleLogger", "Gate", "Faulty", "GateCopy"}
ListTypes == {"RowSource"}
BehaviorTypes == TextTypes \cup ListTypes

Strings == {"", "x"}

\* The row identifiers handed to ListView::register and ListView::dequeue,
\* and the rows of a table: the identifier a row is tagged with and the
\* identifier whose vendor built its delegate.
Identifiers == {"a", "b"}
NoTag == "none"
RowKinds == [tag : Identifiers \cup {NoTag}, by : Identifiers]
NoRow == [tag |-> NoTag, by |-> NoTag]

\* The wrappers of one list view that user code holds: the ListView<T>
\* returned by `with` and the handle clone its delegate got in did_load.
ListWrappers == {"owner", "handle"}

\* The behaviour types that call the registry while threads race on the
\* plain class.
RegistryTextTypes == {"ConsoleLogger", "Gate"}

\* The text behaviour the views of the life-cycle specification are built
\* with: the one whose decision depends on the text.
ViewTextTypes == {"Gate"}

\* The text behaviours of the specification of failing callbacks: one that
\* keeps the trait's defaults and one that panics.
FailureTextTypes == {"ConsoleLogger", "Faulty"}

\* The behaviour types that override TextViewDelegate::text_should_begin_editing.
OverridesShouldBegin(T) == T \in {"Gate", "Faulty"}

\* The calls of a behaviour's methods that panic instead of returning:
\* Faulty's text_did_change on the text "x", its text_should_begin_editing
\* on the empty text.
Panics(T, method, val) ==
    /\ T = "Faulty"
    /\ \/ method = "text_did_change" /\ val = "x"
       \/ method = "text_should_begin_editing" /\ val = ""

\* A panic that leaves an extern "C" fn: the build either aborts the process
\* there or lets the unwinding run on into the native caller's frames.
PanicOutcomes == {"abort", "unwind"}

\* TextViewDelegate::subclass_name: the getter of the NAME const.
subclass_name(T) == IF T = "GateCopy" THEN "Gate" ELSE T

\* TextViewDelegate::text_should_begin_editing of each behaviour type; the
\* trait's default body is `true`.
text_should_begin_editing(T, value) ==
    IF T = "Gate" THEN value # "" ELSE TRUE

BaseOf(T) == IF T \in TextTypes THEN "NSTextView" ELSE "NSTableView"
KeyOf(T) == <<BaseOf(T), subclass_name(T)>>

PlainKey == <<"NSTextView", "RSTTextView">>
DelegateKeys == {KeyOf(T) : T \in BehaviorTypes}
Keys == {PlainKey} \cup DelegateKeys
HostNames == {k[2] : k \in Keys}

NoClass == [token |-> Null, ivars |-> {}, methods |-> {}, T |-> "none"]

NoEvent == [kind |-> "none", view |-> 0, sel |-> "none", target |-> 0,
            before |-> "", value |-> "", result |-> NO, outcome |-> "none",
            wrap |-> "none", id |-> NoTag, path |-> "none", row |-> NoRow]

VARIABLES
    \* the host runtime's class table and the registry
    hostClasses,      \* class name -> class pointer, Null when the runtime has no such class
    declCount,        \* class name -> number of decl.register() calls made for it
    nextToken,        \* the next class pointer the host runtime hands out
    INIT,             \* the Once of register_textview_class
    TEXTVIEW_CLASS,   \* the static mut of register_textview_class
    CLASSES,          \* (base, name) -> class descriptor of load_or_register_class
    \* the threads that call the registry
    tpc,              \* thread -> position inside register_textview_class
    tcalls,           \* thread -> number of finished calls
    waited,           \* threads that blocked in call_once while it was running
    returned,         \* the (key, token) pairs returned by registry calls so far
    retCount,         \* key -> number of calls that returned a token
    \* the views: wrappers on the Rust side, objects on the native side
    cur,              \* the view a call of which runs on the UI thread, 0 when
                      \* none does, Halted once the process has come to its end
    wpc,              \* view -> position of its owning wrapper in its life
    vtype,            \* view -> the behaviour type it was built with
    wrapper,          \* view -> the fields of the owning wrapper
    boxAddr,          \* view -> address of the Box that holds its delegate
    heap,             \* address -> view whose delegate lives there, 0 when free
    native,           \* view -> class pointer of its native object, Null before `new`
    ivars,            \* view -> the instance variables of its native object
    wired,            \* view -> the native object is its own delegate and data source
    attached,         \* view -> the native view sits in a superview
    value,            \* view -> stringValue of the native text view
    uh,               \* view -> number of live handle clones held by user code
    didLoad,          \* view -> number of did_load calls made on its delegate
    loadArg,          \* view -> the wrapper that did_load received
    released,         \* view -> number of times its delegate Box was freed
    event,            \* what the latest step made observable
    \* the list views at work
    factory,          \* view -> wrapper -> identifiers in its cell_factory
    shown,            \* view -> row kind -> rows of that kind the table displays
    reuse,            \* view -> row kind -> rows of that kind in the reuse queue
    borrow,           \* view -> the accesses held on its ObjcProperty
    msg,              \* the native message being sent, with the access it is sent under
    bpc,              \* position in perform_batch_updates, 0 outside of it
    inUpdate,         \* the update closure of perform_batch_updates is running
    updArg,           \* the wrapper the update closure received
    log,              \* what perform_batch_updates has done so far, in order
    \* an NSArray and one call of NSArray::map on it
    nsarray           \* the backing array, the closure and the iteration

regVars == <<hostClasses, declCount, nextToken, INIT, TEXTVIEW_CLASS, CLASSES>>
thrVars == <<tpc, tcalls, waited, returned, retCount>>
listVars == <<factory, shown, reuse, borrow, msg, bpc, inUpdate, updArg, log>>
viewVars == <<cur, wpc, vtype, wrapper, boxAddr, heap, native, ivars, wired,
              attached, value, uh, didLoad, loadArg, released, event, listVars>>
vars == <<regVars, thrVars, viewVars, nsarray>>

\* ------------------------------------------------------------ registry
\* The class configured by the closure handed to load_or_register_class.
DelegateClassConfig(T) ==
    [ivars |-> {TEXTVIEW_DELEGATE_PTR, BACKGROUND_COLOR},
     methods |-> {"textDidChange:"},
     T |-> T]

\* register_listview_class_with_delegate (listview/appkit.rs).
ListClassConfig(T) ==
    [ivars |-> {LISTVIEW_DELEGATE_PTR},
     methods |-> {"numberOfRowsInTableView:", "tableView:viewForTableColumn:row:"},
     T |-> T]

ConfigOf(T) == IF T \in TextTypes THEN DelegateClassConfig(T) ELSE ListClassConfig(T)

\* load_or_register_class: the three ways a call can end.
LoadOrRegisterOutcome(key) ==
    IF CLASSES[key].token # Null THEN "cached"
    ELSE IF hostClasses[key[2]] # Null THEN "fatal"
    ELSE "declare"

\* A registry that hands every class it declares the same token.
LoadOrRegisterClass_SameToken(key, cfg) ==
    IF LoadOrRegisterOutcome(key) = "declare"
    THEN /\ CLASSES' = [CLASSES EXCEPT ![key] =
                [token |-> nextToken, ivars |-> cfg.ivars,
                 methods |-> cfg.methods, T |-> cfg.T]]
         /\ hostClasses' = [hostClasses EXCEPT ![key[2]] = nextToken]
         /\ declCount' = [declCount EXCEPT ![key[2]] = @ + 1]
         /\ nextToken' = nextToken
    ELSE UNCHANGED <<CLASSES, hostClasses, declCount, nextToken>>

\* load_or_register_class(base, name, config): the registry after the call.
LoadOrRegisterClass(key, cfg) ==
    IF LoadOrRegisterOutcome(key) = "declare"
    THEN /\ CLASSES' = [CLASSES EXCEPT ![key] =
                [token |-> nextToken, ivars |-> cfg.ivars,
                 methods |-> cfg.methods, T |-> cfg.T]]
         /\ hostClasses' = [hostClasses EXCEPT ![key[2]] = nextToken]
         /\ declCount' = [declCount EXCEPT ![key[2]] = @ + 1]
         /\ nextToken' = nextToken + 1
    ELSE UNCHANGED <<CLASSES, hostClasses, declCount, nextToken>>

\* A lazily initialised static without the barrier: every caller that arrives
\* before the initialisation has finished runs the closure itself.
OnceRunsClosure_Racy(state) == state \in {"incomplete", "running"}

\* std::sync::Once::call_once: the caller that finds the Once incomplete runs
\* the closure ...
OnceRunsClosure(state) == state = "incomplete"

\* A barrier that lets callers through while the closure is still running.
OnceMayReturn_NoWait(state) == state \in {"running", "complete"}

\* ... and a caller returns without running it only once it is complete.
OnceMayReturn(state) == state = "complete"

\* The host runtime has a class of this name that no decl.register() of the
\* registry made: ClassDecl::new returns None for it.
TakenOutside(n) == hostClasses[n] # Null /\ declCount[n] = 0

RegistryInit(taken) ==
    /\ hostClasses = [n \in HostNames |-> IF n \in taken THEN 1 ELSE Null]
    /\ declCount = [n \in HostNames |-> 0]
    /\ nextToken = 2
    /\ INIT = "incomplete"
    /\ TEXTVIEW_CLASS = Null
    /\ CLASSES = [k \in Keys |-> NoClass]

ThreadsInit ==
    /\ tpc = [t \in Threads |-> "idle"]
    /\ tcalls = [t \in Threads |-> 0]
    /\ waited = {}
    /\ returned = {}
    /\ retCount = [k \in Keys |-> 0]

\* ---- register_textview_class, one thread at a time through its steps
\* INIT.call_once entered while the Once is incomplete: this caller runs the
\* closure.
RtcEnter(t) ==
    /\ tpc[t] \in {"idle", "wait"}
    /\ tcalls[t] < MaxCalls
    /\ OnceRunsClosure(INIT)
    /\ INIT' = "running"
    /\ tpc' = [tpc EXCEPT ![t] = "decl"]
    /\ UNCHANGED <<hostClasses, declCount, nextToken, TEXTVIEW_CLASS, CLASSES,
                   tcalls, waited, returned, retCount>>
    /\ UNCHANGED <<viewVars, nsarray>>

\* call_once entered while another caller runs the closure: block.
RtcBlock(t) ==
    /\ tpc[t] = "idle"
    /\ tcalls[t] < MaxCalls
    /\ INIT = "running"
    /\ ~OnceRunsClosure(INIT)
    /\ ~OnceMayReturn(INIT)
    /\ tpc' = [tpc EXCEPT ![t] = "wait"]
    /\ waited' = waited \cup {t}
    /\ UNCHANGED <<regVars, tcalls, returned, retCount>>
    /\ UNCHANGED <<viewVars, nsarray>>

\* call_once returns without running the closure.
RtcSkip(t) ==
    /\ tpc[t] \in {"idle", "wait"}
    /\ tcalls[t] < MaxCalls
    /\ ~OnceRunsClosure(INIT)
    /\ OnceMayReturn(INIT)
    /\ tpc' = [tpc EXCEPT ![t] = "read"]
    /\ UNCHANGED <<regVars, tcalls, waited, returned, retCount>>
    /\ UNCHANGED <<viewVars, nsarray>>

\* call_once on a poisoned Once panics.
RtcPoisoned(t) ==
    /\ tpc[t] \in {"idle", "wait"}
    /\ tcalls[t] < MaxCalls
    /\ INIT = "poisoned"
    /\ tpc' = [tpc EXCEPT ![t] = "panicked"]
    /\ UNCHANGED <<regVars, tcalls, waited, returned, retCount>>
    /\ UNCHANGED <<viewVars, nsarray>>

\* ClassDecl::new("RSTTextView", superclass).unwrap() and add_ivar: the
\* declaration is allocated when the host runtime has no class of that name.
RtcDeclOk(t) ==
    /\ tpc[t] = "decl"
    /\ hostClasses[PlainKey[2]] = Null
    /\ tpc' = [tpc EXCEPT ![t] = "register"]
    /\ UNCHANGED <<regVars, tcalls, waited, returned, retCount>>
    /\ UNCHANGED <<viewVars, nsarray>>

\* A closure that skips the declaration when ClassDecl::new returns None and
\* returns normally.
RtcDeclFail_Ignored(t) ==
    /\ tpc[t] = "decl"
    /\ hostClasses[PlainKey[2]] # Null
    /\ tpc' = [tpc EXCEPT ![t] = "closing"]
    /\ UNCHANGED <<regVars, tcalls, waited, returned, retCount>>
    /\ UNCHANGED <<viewVars, nsarray>>

\* ClassDecl::new returns None when the name is taken: unwrap panics inside
\* the closure, which poisons the Once.
RtcDeclFail(t) ==
    /\ tpc[t] = "decl"
    /\ hostClasses[PlainKey[2]] # Null
    /\ INIT' = "poisoned"
    /\ tpc' = [tpc EXCEPT ![t] = "panicked"]
    /\ UNCHANGED <<hostClasses, declCount, nextToken, TEXTVIEW_CLASS, CLASSES,
                   tcalls, waited, returned, retCount>>
    /\ UNCHANGED <<viewVars, nsarray>>

\* TEXTVIEW_CLASS = decl.register()
RtcRegister(t) ==
    /\ tpc[t] = "register"
    /\ hostClasses' = [hostClasses EXCEPT ![PlainKey[2]] = nextToken]
    /\ declCount' = [declCount EXCEPT ![PlainKey[2]] = @ + 1]
    /\ TEXTVIEW_CLASS' = nextToken
    /\ nextToken' = nextToken + 1
    /\ tpc' = [tpc EXCEPT ![t] = "closing"]
    /\ UNCHANGED <<INIT, CLASSES, tcalls, waited, returned, retCount>>
    /\ UNCHANGED <<viewVars, nsarray>>

\* the closure returns: the Once becomes complete and call_once returns.
RtcComplete(t) ==
    /\ tpc[t] = "closing"
    /\ INIT' = "complete"
    /\ tpc' = [tpc EXCEPT ![t] = "read"]
    /\ UNCHANGED <<hostClasses, declCount, nextToken, TEXTVIEW_CLASS, CLASSES,
                   tcalls, waited, returned, retCount>>
    /\ UNCHANGED <<viewVars, nsarray>>

\* unsafe { TEXTVIEW_CLASS }: the value of the static is the result.
RtcReturn(t) ==
    /\ tpc[t] = "read"
    /\ returned' = returned \cup {<<PlainKey, TEXTVIEW_CLASS>>}
    /\ retCount' = [retCount EXCEPT ![PlainKey] = @ + 1]
    /\ tcalls' = [tcalls EXCEPT ![t] = @ + 1]
    /\ tpc' = [tpc EXCEPT ![t] = "idle"]
    /\ UNCHANGED <<regVars, waited>>
    /\ UNCHANGED <<viewVars, nsarray>>

\* ---- register_textview_class_with_delegate(&instance) of a thread
RegisterWithDelegate(t, T) ==
    /\ tpc[t] = "idle"
    /\ tcalls[t] < MaxCalls
    /\ LoadOrRegisterOutcome(KeyOf(T)) # "fatal"
    /\ LoadOrRegisterClass(KeyOf(T), DelegateClassConfig(T))
    /\ returned' = returned \cup {<<KeyOf(T), CLASSES'[KeyOf(T)].token>>}
    /\ retCount' = [retCount EXCEPT ![KeyOf(T)] = @ + 1]
    /\ tcalls' = [tcalls EXCEPT ![t] = @ + 1]
    /\ event' = [NoEvent EXCEPT !.kind = "register", !.id = T,
                                !.target = CLASSES'[KeyOf(T)].token,
                                !.outcome = LoadOrRegisterOutcome(KeyOf(T))]
    /\ UNCHANGED <<INIT, TEXTVIEW_CLASS, tpc, waited>>
    /\ UNCHANGED <<cur, wpc, vtype, wrapper, boxAddr, heap, native, ivars, wired,
                   attached, value, uh, didLoad, loadArg, released, listVars,
                   nsarray>>

\* class declaration fails at the host runtime: the call does not return.
RegisterWithDelegateFatal(t, T) ==
    /\ tpc[t] = "idle"
    /\ tcalls[t] < MaxCalls
    /\ LoadOrRegisterOutcome(KeyOf(T)) = "fatal"
    /\ tpc' = [tpc EXCEPT ![t] = "panicked"]
    /\ UNCHANGED <<regVars, tcalls, waited, returned, retCount>>
    /\ UNCHANGED <<viewVars, nsarray>>

\* ------------------------------------------------------------ views
\* A colour object handed to set_background_color: a pointer that is no Box.
ColorId == MaxViews + 1

NoWrapper == [is_handle |-> FALSE, delegate |-> "None", objc |-> Null, anchors |-> FALSE]
NoBorrow == [readers |-> 0, writer |-> FALSE]
NoMsg == [sel |-> "none", access |-> "none"]

\* The value of cur once a panic has left a trampoline: no call runs and
\* none starts any more.
Halted == MaxViews + 1

IsText(v) == vtype[v] \in TextTypes
IsList(v) == vtype[v] \in ListTypes

\* The class the native object of v was instantiated from.
ClassOf(v) == CLASSES[KeyOf(vtype[v])]

\* The host runtime sends a selector to the generated subclass only when the
\* callback table installed at registration has an entry for it.
Responds(v, sel) == sel \in ClassOf(v).methods

PtrIvar(v) == IF IsText(v) THEN TEXTVIEW_DELEGATE_PTR ELSE LISTVIEW_DELEGATE_PTR

\* The CallbackSlot of a native view: its delegate-pointer ivar.
CallbackSlot(v) ==
    IF PtrIvar(v) \in DOMAIN ivars[v] THEN ivars[v][PtrIvar(v)] ELSE Null

\* utils::load::<T>(this, ptr_name): the delegate found at the address held in
\* the ivar `ptr_name` of `this`; 0 stands for memory that holds no delegate.
load(v, ptr_name) ==
    LET ptr == IF ptr_name \in DOMAIN ivars[v] THEN ivars[v][ptr_name] ELSE Null
    IN  IF ptr \in Addrs THEN heap[ptr] ELSE 0

\* A trampoline that looks for the delegate in the wrong instance variable.
text_did_change_WrongIvar(v) == load(v, BACKGROUND_COLOR)

\* extern "C" fn text_did_change::<T>(this, _, _info): the delegate whose
\* text_did_change is called with the view's text.
text_did_change(v) == load(v, TEXTVIEW_DELEGATE_PTR)

\* The trampolines of the list view's delegate and data-source selectors
\* (listview/appkit.rs): the delegate they call.
list_trampoline(v) == load(v, LISTVIEW_DELEGATE_PTR)

\* A trampoline that answers YES whatever the delegate says.
text_should_begin_editing_trampoline_AlwaysYes(v) == YES

\* extern "C" fn text_should_begin_editing::<T>(this, _, _info) -> BOOL
text_should_begin_editing_trampoline(v) ==
    IF text_should_begin_editing(ClassOf(v).T, value[v]) THEN YES ELSE NO

\* TextView::init(view): the wrapper with its anchors, no delegate yet.
init(v) == [is_handle |-> FALSE, delegate |-> "None", objc |-> v, anchors |-> TRUE]

\* A clone that copies the flag of the wrapper it was made from.
clone_as_handle_KeepsFlag(w) ==
    [is_handle |-> w.is_handle, delegate |-> "None", objc |-> w.objc, anchors |-> w.anchors]

\* TextView::clone_as_handle
clone_as_handle(w) ==
    [is_handle |-> TRUE, delegate |-> "None", objc |-> w.objc, anchors |-> w.anchors]

\* ListView::clone_as_handle (ListView has no is_handle field)
ListView_clone_as_handle(w) ==
    [delegate |-> "None", objc |-> w.objc, anchors |-> w.anchors]

\* A drop that leaves the view in its superview whatever is dropped.
DropRemovesFromSuperview_Never(w) == FALSE

\* A drop that detaches whatever is dropped.
DropRemovesFromSuperview_Always(w) == TRUE

\* Drop for TextView: `if !self.is_handle { self.remove_from_superview(); }`
DropRemovesFromSuperview(w) == ~w.is_handle

\* A drop that frees the delegate's Box whichever wrapper is dropped.
DropFreesBox_Always(w) == TRUE

\* The drop of the field `delegate: Option<Box<T>>`: Some(box) frees the Box.
DropFreesBox(w) == w.delegate = "Some"

\* A `with` that moves the delegate to a new Box after it has taken the
\* address of the first one.
delegate_ptr_Moved(v) == CHOOSE a \in Addrs : a # boxAddr[v]

\* let ptr = Box::into_raw(delegate) in TextView::with and
\* let delegate_ptr: *const T = &*delegate in ListView::with: the address of
\* the allocation that holds the delegate; Box::from_raw(ptr) is the Box on
\* that same allocation again.
delegate_ptr(v) == boxAddr[v]

\* A setter that names the wrong instance variable.
set_background_color_ivar_Ptr == TEXTVIEW_DELEGATE_PTR

\* The instance variable written by TextView::set_background_color.
set_background_color_ivar == BACKGROUND_COLOR

OwnerAlive(v) == wpc[v] \notin {"none", "dropped"}
HasWrapper(v) == wpc[v] = "ready" \/ uh[v] > 0

\* The native object is valid until the host runtime deallocates it.
NativeValid(v) == native[v] # Null

\* The handle clones alive in user code, over all views.
LiveHandles == LET Sum[n \in 0..MaxViews] == IF n = 0 THEN 0 ELSE uh[n] + Sum[n - 1]
               IN  Sum[MaxViews]

\* The host runtime's reference counting: the ObjcProperty shared by the
\* wrapper and its handle clones holds one retain, a superview holds another;
\* when the last one goes (`gone`) the native object is deallocated, and its
\* instance variables and its text with it.
ReleaseNative(v, gone) ==
    /\ native' = [native EXCEPT ![v] = IF gone THEN Null ELSE @]
    /\ ivars' = [ivars EXCEPT ![v] = IF gone THEN <<>> ELSE @]
    /\ value' = [value EXCEPT ![v] = IF gone THEN "" ELSE @]
    /\ wired' = [wired EXCEPT ![v] = IF gone THEN FALSE ELSE @]
    /\ vtype' = [vtype EXCEPT ![v] = IF gone THEN "none" ELSE @]

\* A selector that reached a trampoline in the latest step.
TrampolineFired == event.sel # "none"

\* The addresses Box::new can return.  The allocator may hand out any free
\* address; addresses matter only through equality, so of the free addresses
\* that no CallbackSlot still holds one stands for all of them, while each
\* free address that a CallbackSlot still holds is a case of its own.
Dangling(a) == \E u \in Views : CallbackSlot(u) = a
FreeAddrs ==
    LET free == {a \in Addrs : heap[a] = 0}
        fresh == {a \in free : ~Dangling(a)}
    IN  {a \in free : Dangling(a)} \cup
        (IF fresh = {} THEN {} ELSE {CHOOSE a \in fresh : \A b \in fresh : a <= b})

NextView == CHOOSE v \in Views : wpc[v] = "none" /\ \A u \in Views : u < v => wpc[u] # "none"

ViewsInit ==
    /\ cur = 0
    /\ wpc = [v \in Views |-> "none"]
    /\ vtype = [v \in Views |-> "none"]
    /\ wrapper = [v \in Views |-> NoWrapper]
    /\ boxAddr = [v \in Views |-> Null]
    /\ heap = [a \in Addrs |-> 0]
    /\ native = [v \in Views |-> Null]
    /\ ivars = [v \in Views |-> <<>>]
    /\ wired = [v \in Views |-> FALSE]
    /\ attached = [v \in Views |-> FALSE]
    /\ value = [v \in Views |-> ""]
    /\ uh = [v \in Views |-> 0]
    /\ didLoad = [v \in Views |-> 0]
    /\ loadArg = [v \in Views |-> NoWrapper]
    /\ released = [v \in Views |-> 0]
    /\ event = NoEvent
    /\ factory = [v \in Views |-> [w \in ListWrappers |-> {}]]
    /\ shown = [v \in Views |-> [r \in RowKinds |-> 0]]
    /\ reuse = [v \in Views |-> [r \in RowKinds |-> 0]]
    /\ borrow = [v \in Views |-> NoBorrow]
    /\ msg = NoMsg
    /\ bpc = 0
    /\ inUpdate = FALSE
    /\ updArg = NoWrapper
    /\ log = <<>>

\* ---- TextView::with(delegate)
\* A `with` that declares a class for every view it builds, without asking
\* the registry for the one it has.
TextWithRegister_Fresh(T) ==
    /\ cur = 0
    /\ \E v \in Views : wpc[v] = "none"
    /\ CLASSES' = [CLASSES EXCEPT ![KeyOf(T)] =
                      [token |-> nextToken, ivars |-> DelegateClassConfig(T).ivars,
                       methods |-> DelegateClassConfig(T).methods, T |-> T]]
    /\ hostClasses' = [hostClasses EXCEPT ![KeyOf(T)[2]] = nextToken]
    /\ declCount' = [declCount EXCEPT ![KeyOf(T)[2]] = @ + 1]
    /\ nextToken' = nextToken + 1
    /\ cur' = NextView
    /\ wpc' = [wpc EXCEPT ![NextView] = "registered"]
    /\ vtype' = [vtype EXCEPT ![NextView] = T]
    /\ event' = NoEvent
    /\ UNCHANGED <<INIT, TEXTVIEW_CLASS, thrVars, wrapper, boxAddr, heap, native,
                   ivars, wired, attached, value, uh, didLoad, loadArg, released>>
    /\ UNCHANGED <<listVars, nsarray>>

\* let class = register_view_class_with_delegate(&delegate);
TextWithRegister(T) ==
    /\ cur = 0
    /\ \E v \in Views : wpc[v] = "none"
    /\ LoadOrRegisterOutcome(KeyOf(T)) # "fatal"
    /\ LoadOrRegisterClass(KeyOf(T), DelegateClassConfig(T))
    /\ cur' = NextView
    /\ wpc' = [wpc EXCEPT ![NextView] = "registered"]
    /\ vtype' = [vtype EXCEPT ![NextView] = T]
    /\ event' = NoEvent
    /\ UNCHANGED <<INIT, TEXTVIEW_CLASS, thrVars, wrapper, boxAddr, heap, native,
                   ivars, wired, attached, value, uh, didLoad, loadArg, released>>
    /\ UNCHANGED <<listVars, nsarray>>

\* let mut delegate = Box::new(delegate);
TextBoxNew(v) ==
    /\ cur = v /\ IsText(v) /\ wpc[v] = "registered"
    /\ \E a \in FreeAddrs :
        /\ heap' = [heap EXCEPT ![a] = v]
        /\ boxAddr' = [boxAddr EXCEPT ![v] = a]
    /\ wpc' = [wpc EXCEPT ![v] = "boxed"]
    /\ event' = NoEvent
    /\ UNCHANGED <<regVars, thrVars, cur, vtype, wrapper, native, ivars, wired,
                   attached, value, uh, didLoad, loadArg, released>>
    /\ UNCHANGED <<listVars, nsarray>>

\* let view: id = msg_send![class, new];
TextNativeNew(v) ==
    /\ cur = v /\ IsText(v) /\ wpc[v] = "boxed"
    /\ native' = [native EXCEPT ![v] = ClassOf(v).token]
    /\ ivars' = [ivars EXCEPT ![v] = [n \in ClassOf(v).ivars |-> Null]]
    /\ wpc' = [wpc EXCEPT ![v] = "allocated"]
    /\ event' = NoEvent
    /\ UNCHANGED <<regVars, thrVars, cur, vtype, wrapper, boxAddr, heap, wired,
                   attached, value, uh, didLoad, loadArg, released>>
    /\ UNCHANGED <<listVars, nsarray>>

\* let ptr = Box::into_raw(delegate);
\* (&mut *view).set_ivar(TEXTVIEW_DELEGATE_PTR, ptr as usize);
\* delegate = Box::from_raw(ptr);
TextSetIvar(v) ==
    /\ cur = v /\ IsText(v) /\ wpc[v] = "allocated"
    /\ ivars' = [ivars EXCEPT ![v][TEXTVIEW_DELEGATE_PTR] = delegate_ptr(v)]
    /\ wpc' = [wpc EXCEPT ![v] = "slotset"]
    /\ event' = NoEvent
    /\ UNCHANGED <<regVars, thrVars, cur, vtype, wrapper, boxAddr, heap, native,
                   wired, attached, value, uh, didLoad, loadArg, released>>
    /\ UNCHANGED <<listVars, nsarray>>

\* let mut view = TextView::init(view);
TextInit(v) ==
    /\ cur = v /\ IsText(v) /\ wpc[v] = "slotset"
    /\ wrapper' = [wrapper EXCEPT ![v] = init(v)]
    /\ wpc' = [wpc EXCEPT ![v] = "built"]
    /\ event' = NoEvent
    /\ UNCHANGED <<regVars, thrVars, cur, vtype, boxAddr, heap, native, ivars,
                   wired, attached, value, uh, didLoad, loadArg, released>>
    /\ UNCHANGED <<listVars, nsarray>>

\* (&mut delegate).did_load(view.clone_as_handle());
TextDidLoad(v) ==
    /\ cur = v /\ IsText(v) /\ wpc[v] = "built"
    /\ loadArg' = [loadArg EXCEPT ![v] = clone_as_handle(wrapper[v])]
    /\ didLoad' = [didLoad EXCEPT ![v] = @ + 1]
    /\ wpc' = [wpc EXCEPT ![v] = "loaded"]
    /\ event' = [NoEvent EXCEPT !.kind = "did_load", !.view = v]
    /\ UNCHANGED <<regVars, thrVars, cur, vtype, wrapper, boxAddr, heap, native,
                   ivars, wired, attached, value, uh, released>>
    /\ UNCHANGED <<listVars, nsarray>>

\* view.delegate = Some(delegate); view
TextReturn(v) ==
    /\ cur = v /\ IsText(v) /\ wpc[v] = "loaded"
    /\ wrapper' = [wrapper EXCEPT ![v].delegate = "Some"]
    /\ wpc' = [wpc EXCEPT ![v] = "ready"]
    /\ cur' = 0
    /\ event' = NoEvent
    /\ UNCHANGED <<regVars, thrVars, vtype, boxAddr, heap, native, ivars, wired,
                   attached, value, uh, didLoad, loadArg, released>>
    /\ UNCHANGED <<listVars, nsarray>>

\* ---- ListView::with(delegate)
\* let class = register_listview_class_with_delegate::<T>(&delegate);
ListWithRegister(T) ==
    /\ cur = 0
    /\ \E v \in Views : wpc[v] = "none"
    /\ LoadOrRegisterOutcome(KeyOf(T)) # "fatal"
    /\ LoadOrRegisterClass(KeyOf(T), ListClassConfig(T))
    /\ cur' = NextView
    /\ wpc' = [wpc EXCEPT ![NextView] = "registered"]
    /\ vtype' = [vtype EXCEPT ![NextView] = T]
    /\ event' = NoEvent
    /\ UNCHANGED <<INIT, TEXTVIEW_CLASS, thrVars, wrapper, boxAddr, heap, native,
                   ivars, wired, attached, value, uh, didLoad, loadArg, released>>
    /\ UNCHANGED <<listVars, nsarray>>

\* let view = common_init(class);
ListCommonInit(v) ==
    /\ cur = v /\ IsList(v) /\ wpc[v] = "registered"
    /\ native' = [native EXCEPT ![v] = ClassOf(v).token]
    /\ ivars' = [ivars EXCEPT ![v] = [n \in ClassOf(v).ivars |-> Null]]
    /\ wpc' = [wpc EXCEPT ![v] = "allocated"]
    /\ event' = NoEvent
    /\ UNCHANGED <<regVars, thrVars, cur, vtype, wrapper, boxAddr, heap, wired,
                   attached, value, uh, didLoad, loadArg, released>>
    /\ UNCHANGED <<listVars, nsarray>>

\* let mut delegate = Box::new(delegate);
ListBoxNew(v) ==
    /\ cur = v /\ IsList(v) /\ wpc[v] = "allocated"
    /\ \E a \in FreeAddrs :
        /\ heap' = [heap EXCEPT ![a] = v]
        /\ boxAddr' = [boxAddr EXCEPT ![v] = a]
    /\ wpc' = [wpc EXCEPT ![v] = "boxed"]
    /\ event' = NoEvent
    /\ UNCHANGED <<regVars, thrVars, cur, vtype, wrapper, native, ivars, wired,
                   attached, value, uh, didLoad, loadArg, released>>
    /\ UNCHANGED <<listVars, nsarray>>

\* let delegate_ptr: *const T = &*delegate;
\* (&mut *view).set_ivar(LISTVIEW_DELEGATE_PTR, delegate_ptr as usize);
ListSetIvar(v) ==
    /\ cur = v /\ IsList(v) /\ wpc[v] = "boxed"
    /\ ivars' = [ivars EXCEPT ![v][LISTVIEW_DELEGATE_PTR] = delegate_ptr(v)]
    /\ wpc' = [wpc EXCEPT ![v] = "slotset"]
    /\ event' = NoEvent
    /\ UNCHANGED <<regVars, thrVars, cur, vtype, wrapper, boxAddr, heap, native,
                   wired, attached, value, uh, didLoad, loadArg, released>>
    /\ UNCHANGED <<listVars, nsarray>>

\* msg_send![view, setDelegate:view]; msg_send![view, setDataSource:view];
ListSetDelegate(v) ==
    /\ cur = v /\ IsList(v) /\ wpc[v] = "slotset"
    /\ wired' = [wired EXCEPT ![v] = TRUE]
    /\ wpc' = [wpc EXCEPT ![v] = "wired"]
    /\ event' = NoEvent
    /\ UNCHANGED <<regVars, thrVars, cur, vtype, wrapper, boxAddr, heap, native,
                   ivars, attached, value, uh, didLoad, loadArg, released>>
    /\ UNCHANGED <<listVars, nsarray>>

\* the scroll view (setDocumentView:view) and the ListView struct with its
\* anchors, delegate: None
ListBuild(v) ==
    /\ cur = v /\ IsList(v) /\ wpc[v] = "wired"
    /\ wrapper' = [wrapper EXCEPT ![v] =
                      [delegate |-> "None", objc |-> v, anchors |-> TRUE]]
    /\ wpc' = [wpc EXCEPT ![v] = "built"]
    /\ event' = NoEvent
    /\ UNCHANGED <<regVars, thrVars, cur, vtype, boxAddr, heap, native, ivars,
                   wired, attached, value, uh, didLoad, loadArg, released>>
    /\ UNCHANGED <<listVars, nsarray>>

\* (&mut delegate).did_load(view.clone_as_handle());
ListDidLoad(v) ==
    /\ cur = v /\ IsList(v) /\ wpc[v] = "built"
    /\ loadArg' = [loadArg EXCEPT ![v] = ListView_clone_as_handle(wrapper[v])]
    /\ didLoad' = [didLoad EXCEPT ![v] = @ + 1]
    /\ wpc' = [wpc EXCEPT ![v] = "loaded"]
    /\ event' = [NoEvent EXCEPT !.kind = "did_load", !.view = v]
    /\ UNCHANGED <<regVars, thrVars, cur, vtype, wrapper, boxAddr, heap, native,
                   ivars, wired, attached, value, uh, released>>
    /\ UNCHANGED <<listVars, nsarray>>

\* view.delegate = Some(delegate); view
ListReturn(v) ==
    /\ cur = v /\ IsList(v) /\ wpc[v] = "loaded"
    /\ wrapper' = [wrapper EXCEPT ![v].delegate = "Some"]
    /\ wpc' = [wpc EXCEPT ![v] = "ready"]
    /\ cur' = 0
    /\ event' = NoEvent
    /\ UNCHANGED <<regVars, thrVars, vtype, boxAddr, heap, native, ivars, wired,
                   attached, value, uh, didLoad, loadArg, released>>
    /\ UNCHANGED <<listVars, nsarray>>

\* ---- the wrappers in use, between two runs of the event loop
\* superview.add_subview(&view), with the owning wrapper or with a handle
Attach(v) ==
    /\ cur = 0
    /\ HasWrapper(v) /\ native[v] # Null
    /\ ~attached[v]
    /\ attached' = [attached EXCEPT ![v] = TRUE]
    /\ event' = NoEvent
    /\ UNCHANGED <<regVars, thrVars, cur, wpc, vtype, wrapper, boxAddr, heap,
                   native, ivars, wired, value, uh, didLoad, loadArg, released>>
    /\ UNCHANGED <<listVars, nsarray>>

\* view.clone_as_handle() called by user code (public on TextView)
CloneAsHandle(v) ==
    /\ cur = 0
    /\ IsText(v) /\ HasWrapper(v)
    /\ LiveHandles < MaxHandles
    /\ uh' = [uh EXCEPT ![v] = @ + 1]
    /\ event' = NoEvent
    /\ UNCHANGED <<regVars, thrVars, cur, wpc, vtype, wrapper, boxAddr, heap,
                   native, ivars, wired, attached, value, didLoad, loadArg, released>>
    /\ UNCHANGED <<listVars, nsarray>>

\* TextView::set_background_color(color), on the wrapper or on a handle
SetBackgroundColor(v) ==
    /\ cur = 0
    /\ IsText(v) /\ HasWrapper(v)
    /\ ivars' = [ivars EXCEPT ![v][set_background_color_ivar] = ColorId]
    /\ event' = NoEvent
    /\ UNCHANGED <<regVars, thrVars, cur, wpc, vtype, wrapper, boxAddr, heap,
                   native, wired, attached, value, uh, didLoad, loadArg, released>>
    /\ UNCHANGED <<listVars, nsarray>>

\* Drop for TextView<T>, then the drop of the fields: a wrapper that holds
\* the delegate frees its Box.
DropTextView(v, w) ==
    /\ attached' = [attached EXCEPT ![v] =
                       IF DropRemovesFromSuperview(w) THEN FALSE ELSE @]
    /\ IF DropFreesBox(w)
       THEN /\ heap' = [heap EXCEPT ![boxAddr[v]] = 0]
            /\ released' = [released EXCEPT ![v] = @ + 1]
       ELSE UNCHANGED <<heap, released>>

\* the owning TextView goes out of scope
TextDrop(v) ==
    /\ cur = 0
    /\ IsText(v) /\ wpc[v] = "ready"
    /\ DropTextView(v, wrapper[v])
    /\ ReleaseNative(v, uh[v] = 0 /\ ~attached'[v])
    /\ wpc' = [wpc EXCEPT ![v] = "dropped"]
    /\ wrapper' = [wrapper EXCEPT ![v] = NoWrapper]
    /\ boxAddr' = [boxAddr EXCEPT ![v] = Null]
    /\ event' = [NoEvent EXCEPT !.kind = "drop_owner", !.view = v,
                                !.result = IF attached[v] THEN YES ELSE NO]
    /\ UNCHANGED <<regVars, thrVars, cur, uh, didLoad, loadArg>>
    /\ UNCHANGED <<listVars, nsarray>>

\* a handle clone goes out of scope
DropHandle(v) ==
    /\ cur = 0
    /\ IsText(v) /\ uh[v] > 0
    /\ DropTextView(v, clone_as_handle(init(v)))
    /\ ReleaseNative(v, wpc[v] = "dropped" /\ uh[v] = 1 /\ ~attached'[v])
    /\ uh' = [uh EXCEPT ![v] = @ - 1]
    /\ event' = [NoEvent EXCEPT !.kind = "drop_handle", !.view = v]
    /\ UNCHANGED <<regVars, thrVars, cur, wpc, wrapper, boxAddr, didLoad, loadArg>>
    /\ UNCHANGED <<listVars, nsarray>>

\* Drop for ListView<T>: the body is empty; the drop of the fields frees the
\* Box of the delegate.
ListDrop(v) ==
    /\ cur = 0
    /\ IsList(v) /\ wpc[v] = "ready"
    /\ heap' = [heap EXCEPT ![boxAddr[v]] = 0]
    /\ released' = [released EXCEPT ![v] = @ + 1]
    /\ ReleaseNative(v, ~attached[v])
    /\ wpc' = [wpc EXCEPT ![v] = "dropped"]
    /\ wrapper' = [wrapper EXCEPT ![v] = NoWrapper]
    /\ boxAddr' = [boxAddr EXCEPT ![v] = Null]
    /\ event' = NoEvent
    /\ UNCHANGED <<regVars, thrVars, cur, attached, uh, didLoad, loadArg>>
    /\ UNCHANGED <<listVars, nsarray>>

\* ---- the native toolkit
\* The answers the toolkit can get when it asks whether editing may begin:
\* the trampoline's, when the class has one; its own default otherwise.
EditDecisions(v) ==
    IF Responds(v, "textShouldBeginEditing:")
    THEN IF load(v, TEXTVIEW_DELEGATE_PTR) # 0
         THEN {text_should_begin_editing_trampoline(v)} ELSE {YES, NO}
    ELSE {YES}

\* How the textDidChange: sent after the text became s ends: the trampoline
\* calls the delegate's text_did_change(s) and returns when that returns;
\* nothing in it catches a panic of the delegate.
TextDidChangeOutcomes(v, s) ==
    IF Responds(v, "textDidChange:") /\ text_did_change(v) # 0
       /\ Panics(ClassOf(v).T, "text_did_change", s)
    THEN PanicOutcomes ELSE {"returned"}

\* How a call of the should-begin-editing trampoline ends.
ShouldBeginEditingOutcomes(v) ==
    IF Panics(ClassOf(v).T, "text_should_begin_editing", value[v])
    THEN PanicOutcomes ELSE {"returned"}

\* The user types into a text view that is on screen: the toolkit asks
\* whether editing may begin, changes the text and sends textDidChange:,
\* which the subclass routes to text_did_change::<T>.
TextEdit(v, s) ==
    /\ cur = 0
    /\ IsText(v) /\ attached[v] /\ NativeValid(v)
    /\ s # value[v]
    /\ \E permitted \in EditDecisions(v) :
        IF permitted = YES
        THEN /\ value' = [value EXCEPT ![v] = s]
             /\ \E out \in TextDidChangeOutcomes(v, s) :
                  /\ event' = [NoEvent EXCEPT
                               !.kind = IF out = "returned" THEN "edit" ELSE "panic",
                               !.view = v,
                               !.sel = IF Responds(v, "textDidChange:")
                                       THEN "textDidChange:" ELSE "none",
                               !.target = IF Responds(v, "textDidChange:")
                                          THEN text_did_change(v) ELSE 0,
                               !.before = value[v], !.value = s, !.result = YES,
                               !.outcome = out]
                  /\ cur' = IF out = "returned" THEN cur ELSE Halted
        ELSE /\ value' = value
             /\ event' = [NoEvent EXCEPT !.kind = "edit", !.view = v,
                                         !.before = value[v], !.value = value[v],
                                         !.result = NO, !.outcome = "returned"]
             /\ cur' = cur
    /\ UNCHANGED <<regVars, thrVars, wpc, vtype, wrapper, boxAddr, heap,
                   native, ivars, wired, attached, uh, didLoad, loadArg, released>>
    /\ UNCHANGED <<listVars, nsarray>>

\* The table view asks its data source or delegate (itself) something: while
\* it is on screen, or from inside the messages ListView::with sends to it
\* once setDelegate: and setDataSource: are done.
ListCallback(v, sel) ==
    /\ IsList(v) /\ wired[v] /\ NativeValid(v)
    /\ Responds(v, sel)
    /\ \/ cur = v /\ wpc[v] = "wired"
       \/ cur = 0 /\ attached[v]
    /\ event' = [NoEvent EXCEPT !.kind = "callback", !.view = v, !.sel = sel,
                                !.target = list_trampoline(v),
                                !.outcome = "returned"]
    /\ UNCHANGED <<regVars, thrVars, cur, wpc, vtype, wrapper, boxAddr, heap,
                   native, ivars, wired, attached, value, uh, didLoad, loadArg,
                   released>>
    /\ UNCHANGED <<listVars, nsarray>>

\* text_should_begin_editing::<T>(this, sel, info) called on a view whose
\* wrapper is alive.
ApplyShouldBeginEditing(v) ==
    /\ cur = 0
    /\ IsText(v) /\ wpc[v] = "ready"
    /\ \E out \in ShouldBeginEditingOutcomes(v) :
        /\ event' = [NoEvent EXCEPT
                     !.kind = IF out = "returned" THEN "decision" ELSE "panic",
                     !.view = v, !.sel = "textShouldBeginEditing:",
                     !.target = load(v, TEXTVIEW_DELEGATE_PTR),
                     !.before = value[v], !.value = value[v],
                     !.result = IF out = "returned"
                                THEN text_should_begin_editing_trampoline(v) ELSE NO,
                     !.outcome = out]
        /\ cur' = IF out = "returned" THEN cur ELSE Halted
    /\ UNCHANGED <<regVars, thrVars, wpc, vtype, wrapper, boxAddr, heap,
                   native, ivars, wired, attached, value, uh, didLoad, loadArg,
                   released>>
    /\ UNCHANGED <<listVars, nsarray>>

\* ------------------------------------------------------------ list views
\* ObjcProperty (utils/properties.rs): `get` runs its closure under shared
\* access to the native object, `with_mut` under exclusive access; an access
\* that meets a conflicting one already held does not get through (the
\* "double lock" of the comments in listview/mod.rs).
Conflicts(b, access) ==
    IF access = "excl" THEN b.writer \/ b.readers > 0 ELSE b.writer

Acquire(b, access) ==
    IF access = "excl" THEN [b EXCEPT !.writer = TRUE]
    ELSE [b EXCEPT !.readers = @ + 1]

Release(b, access) ==
    IF access = "excl" THEN [b EXCEPT !.writer = FALSE]
    ELSE [b EXCEPT !.readers = @ - 1]

\* The operations on rows and the native message each one sends.
RowOps == {"insert_rows", "reload_rows", "remove_rows", "reload"}

SelectorOf(op) ==
    CASE op = "insert_rows" -> "insertRowsAtIndexes:withAnimation:"
      [] op = "reload_rows" -> "reloadDataForRowIndexes:columnIndexes:"
      [] op = "remove_rows" -> "removeRowsAtIndexes:withAnimation:"
      [] op = "reload" -> "reloadData"

\* self.objc.with_mut in insert_rows, remove_rows and reload; self.objc.get
\* in reload_rows.
AccessOf(op) == IF op = "reload_rows" THEN "shared" ELSE "excl"

\* A perform_batch_updates that sends its two messages under with_mut.
perform_batch_updates_access_Mut == "excl"

\* perform_batch_updates sends beginUpdates and endUpdates under self.objc.get
perform_batch_updates_access == "shared"

\* A perform_batch_updates that ends the native batch before it runs the
\* closure.
perform_batch_updates_EndFirst == <<"beginUpdates", "endUpdates", "update">>

\* The body of perform_batch_updates, statement by statement.
perform_batch_updates == <<"beginUpdates", "update", "endUpdates">>

\* A dequeue that leaves the rows it builds without identifier.
set_identifier_None(identifier) == NoTag

\* view.set_identifier(identifier) in dequeue: the tag of a row built there.
set_identifier(identifier) == identifier

\* A clone_as_handle whose handle refers to the table of the ListView it
\* was made from.
cell_factory_Shared(w) == "owner"

\* The table behind the cell_factory field of a wrapper: `with` makes one
\* for the ListView it returns, and clone_as_handle makes another,
\* `cell_factory: CellFactory::new()`, for the handle.
cell_factory(w) == w

ListUsable(v) == IsList(v) /\ wpc[v] = "ready" /\ NativeValid(v)

\* The native table is between beginUpdates and endUpdates.
InNativeBatch ==
    /\ \E i \in 1..Len(log) : log[i] = "beginUpdates"
    /\ \A i \in 1..Len(log) : log[i] # "endUpdates"

\* The messages during which the table view asks its data source for row
\* views before it returns: endUpdates and reloadDataForRowIndexes: always;
\* an insertion, a removal or reloadData when no batch is open (inside a
\* batch they are put off until endUpdates).
LoadsRows ==
    \/ msg.sel \in {"endUpdates", "reloadDataForRowIndexes:columnIndexes:"}
    \/ /\ msg.sel \in {"insertRowsAtIndexes:withAnimation:",
                       "removeRowsAtIndexes:withAnimation:", "reloadData"}
       /\ ~InNativeBatch

\* The rows in existence and the vendors registered, over all views.
RECURSIVE SumOver(_, _)
SumOver(f, S) ==
    IF S = {} THEN 0
    ELSE LET x == CHOOSE y \in S : TRUE IN f[x] + SumOver(f, S \ {x})

RowTotal ==
    SumOver([p \in Views \X RowKinds |-> shown[p[1]][p[2]] + reuse[p[1]][p[2]]],
            Views \X RowKinds)

VendorTotal ==
    SumOver([p \in Views \X ListWrappers |-> Cardinality(factory[p[1]][p[2]])],
            Views \X ListWrappers)

\* ListView::register(identifier, vendor) on the wrapper w of v
Register(v, w, identifier) ==
    /\ cur = 0
    /\ ListUsable(v)
    /\ identifier \notin factory[v][cell_factory(w)]
    /\ VendorTotal < MaxVendors
    /\ factory' = [factory EXCEPT ![v][cell_factory(w)] = @ \cup {identifier}]
    /\ event' = [NoEvent EXCEPT !.kind = "register_vendor", !.view = v,
                                !.wrap = w, !.id = identifier]
    /\ UNCHANGED <<nsarray, regVars, thrVars, cur, wpc, vtype, wrapper, boxAddr, heap,
                   native, ivars, wired, attached, value, uh, didLoad, loadArg,
                   released, shown, reuse, borrow, msg, bpc, inUpdate, updArg, log>>

\* ListView::dequeue(identifier) on the wrapper w of v, sent from the
\* trampoline of selector sel ("none": called by user code, which keeps the
\* row).  makeViewWithIdentifier: is sent under self.objc.get; a row it gives
\* is returned as it is, otherwise the vendor registered under the identifier
\* in this wrapper's cell_factory builds one, which is tagged.
dequeue(v, w, identifier, sel) ==
    LET cached == {r \in RowKinds : r.tag = identifier /\ reuse[v][r] > 0}
        built == [tag |-> set_identifier(identifier), by |-> identifier]
        ev == [NoEvent EXCEPT !.kind = "dequeue", !.view = v, !.sel = sel,
                              !.target = IF sel = "none" THEN 0 ELSE list_trampoline(v),
                              !.wrap = w, !.id = identifier]
        keep(r) == IF sel = "none" THEN shown
                   ELSE [shown EXCEPT ![v][r] = @ + 1]
    IN  IF Conflicts(borrow[v], "shared")
        THEN /\ event' = [ev EXCEPT !.outcome = "double_lock"]
             /\ cur' = Halted
             /\ UNCHANGED <<shown, reuse>>
        ELSE IF cached # {}
        THEN \E r \in cached :
                /\ reuse' = [reuse EXCEPT ![v][r] = @ - 1]
                /\ shown' = keep(r)
                /\ event' = [ev EXCEPT !.outcome = "returned", !.path = "cached",
                                       !.row = r]
                /\ cur' = cur
        ELSE IF identifier \in factory[v][cell_factory(w)]
        THEN /\ reuse' = reuse
             /\ shown' = keep(built)
             /\ event' = [ev EXCEPT !.outcome = "returned", !.path = "vendor",
                                    !.row = built]
             /\ cur' = cur
        ELSE /\ event' = [ev EXCEPT !.outcome = "no_vendor"]
             /\ cur' = Halted
             /\ UNCHANGED <<shown, reuse>>

\* user code calls dequeue between two runs of the event loop
UserDequeue(v, w, identifier) ==
    /\ cur = 0
    /\ ListUsable(v)
    /\ dequeue(v, w, identifier, "none")
    /\ UNCHANGED <<nsarray, regVars, thrVars, wpc, vtype, wrapper, boxAddr, heap,
                   native, ivars, wired, attached, value, uh, didLoad, loadArg,
                   released, factory, borrow, msg, bpc, inUpdate, updArg, log>>

\* The table view asks its data source for a row view while a message is
\* being sent to it; the delegate answers with a dequeue on the handle it got
\* in did_load.
DataSourceDequeue(v, identifier) ==
    /\ cur = v
    /\ ListUsable(v) /\ wired[v]
    /\ Responds(v, "tableView:viewForTableColumn:row:")
    /\ msg # NoMsg /\ LoadsRows
    /\ RowTotal < MaxRows \/ \E r \in RowKinds : r.tag = identifier /\ reuse[v][r] > 0
    /\ dequeue(v, "handle", identifier, "tableView:viewForTableColumn:row:")
    /\ UNCHANGED <<nsarray, regVars, thrVars, wpc, vtype, wrapper, boxAddr, heap,
                   native, ivars, wired, attached, value, uh, didLoad, loadArg,
                   released, factory, borrow, msg, bpc, inUpdate, updArg, log>>

\* The table view puts a row it no longer displays into its reuse queue.
Recycle(v, r) ==
    /\ cur = 0
    /\ ListUsable(v)
    /\ shown[v][r] > 0
    /\ shown' = [shown EXCEPT ![v][r] = @ - 1]
    /\ reuse' = [reuse EXCEPT ![v][r] = @ + 1]
    /\ event' = NoEvent
    /\ UNCHANGED <<nsarray, regVars, thrVars, cur, wpc, vtype, wrapper, boxAddr, heap,
                   native, ivars, wired, attached, value, uh, didLoad, loadArg,
                   released, factory, borrow, msg, bpc, inUpdate, updArg, log>>

\* insert_rows, reload_rows, remove_rows or reload is called, by user code or
\* by the update closure of perform_batch_updates: the access is taken and
\* the message is sent.
RowOpSend(v, op) ==
    /\ ListUsable(v)
    /\ msg = NoMsg
    /\ \/ cur = 0 /\ bpc = 0
       \/ cur = v /\ inUpdate /\ op # "reload" /\ Len(log) < MaxOps + 2
    /\ IF Conflicts(borrow[v], AccessOf(op))
       THEN /\ event' = [NoEvent EXCEPT !.kind = "row_op", !.view = v,
                                       !.outcome = "double_lock"]
            /\ cur' = Halted
            /\ UNCHANGED <<borrow, msg, log>>
       ELSE /\ borrow' = [borrow EXCEPT ![v] = Acquire(@, AccessOf(op))]
            /\ msg' = [sel |-> SelectorOf(op), access |-> AccessOf(op)]
            /\ log' = IF inUpdate THEN Append(log, SelectorOf(op)) ELSE log
            /\ cur' = v
            /\ event' = NoEvent
    /\ UNCHANGED <<nsarray, regVars, thrVars, wpc, vtype, wrapper, boxAddr, heap,
                   native, ivars, wired, attached, value, uh, didLoad, loadArg,
                   released, factory, shown, reuse, bpc, inUpdate, updArg>>

\* the message returns: the access is given up and the operation returns
RowOpReturn(v) ==
    /\ cur = v
    /\ msg # NoMsg /\ msg.sel # "endUpdates"
    /\ borrow' = [borrow EXCEPT ![v] = Release(@, msg.access)]
    /\ msg' = NoMsg
    /\ cur' = IF bpc = 0 THEN 0 ELSE v
    /\ event' = NoEvent
    /\ UNCHANGED <<nsarray, regVars, thrVars, wpc, vtype, wrapper, boxAddr, heap,
                   native, ivars, wired, attached, value, uh, didLoad, loadArg,
                   released, factory, shown, reuse, bpc, inUpdate, updArg, log>>

\* ---- ListView::perform_batch_updates(update)
PbuEnter(v) ==
    /\ cur = 0 /\ bpc = 0
    /\ ListUsable(v)
    /\ cur' = v
    /\ bpc' = 1
    /\ event' = NoEvent
    /\ UNCHANGED <<nsarray, regVars, thrVars, wpc, vtype, wrapper, boxAddr, heap,
                   native, ivars, wired, attached, value, uh, didLoad, loadArg,
                   released, factory, shown, reuse, borrow, msg, inUpdate, updArg, log>>

PbuAt(v, statement) ==
    /\ cur = v
    /\ bpc \in 1..Len(perform_batch_updates)
    /\ perform_batch_updates[bpc] = statement
    /\ ~inUpdate /\ msg = NoMsg

\* self.objc.get(|obj| msg_send![obj, beginUpdates]);
PbuBeginUpdates(v) ==
    /\ PbuAt(v, "beginUpdates")
    /\ IF Conflicts(borrow[v], perform_batch_updates_access)
       THEN /\ event' = [NoEvent EXCEPT !.kind = "batch", !.view = v,
                                       !.outcome = "double_lock"]
            /\ cur' = Halted
            /\ UNCHANGED <<bpc, log>>
       ELSE /\ log' = Append(log, "beginUpdates")
            /\ bpc' = bpc + 1
            /\ cur' = cur
            /\ event' = NoEvent
    /\ UNCHANGED <<nsarray, regVars, thrVars, wpc, vtype, wrapper, boxAddr, heap,
                   native, ivars, wired, attached, value, uh, didLoad, loadArg,
                   released, factory, shown, reuse, borrow, msg, inUpdate, updArg>>

\* let handle = self.clone_as_handle(); update(handle);  -- the closure starts
PbuUpdate(v) ==
    /\ PbuAt(v, "update")
    /\ inUpdate' = TRUE
    /\ updArg' = ListView_clone_as_handle(wrapper[v])
    /\ log' = Append(log, "update")
    /\ event' = NoEvent
    /\ UNCHANGED <<nsarray, regVars, thrVars, cur, wpc, vtype, wrapper, boxAddr, heap,
                   native, ivars, wired, attached, value, uh, didLoad, loadArg,
                   released, factory, shown, reuse, borrow, msg, bpc>>

\* the closure returns
PbuUpdateReturn(v) ==
    /\ cur = v
    /\ inUpdate /\ msg = NoMsg
    /\ inUpdate' = FALSE
    /\ bpc' = bpc + 1
    /\ event' = NoEvent
    /\ UNCHANGED <<nsarray, regVars, thrVars, cur, wpc, vtype, wrapper, boxAddr, heap,
                   native, ivars, wired, attached, value, uh, didLoad, loadArg,
                   released, factory, shown, reuse, borrow, msg, updArg, log>>

\* self.objc.get(|obj| msg_send![obj, endUpdates]);  -- the message is sent
PbuEndUpdates(v) ==
    /\ PbuAt(v, "endUpdates")
    /\ IF Conflicts(borrow[v], perform_batch_updates_access)
       THEN /\ event' = [NoEvent EXCEPT !.kind = "batch", !.view = v,
                                       !.outcome = "double_lock"]
            /\ cur' = Halted
            /\ UNCHANGED <<borrow, msg, log>>
       ELSE /\ borrow' = [borrow EXCEPT ![v] = Acquire(@, perform_batch_updates_access)]
            /\ msg' = [sel |-> "endUpdates", access |-> perform_batch_updates_access]
            /\ log' = Append(log, "endUpdates")
            /\ cur' = cur
            /\ event' = NoEvent
    /\ UNCHANGED <<nsarray, regVars, thrVars, wpc, vtype, wrapper, boxAddr, heap,
                   native, ivars, wired, attached, value, uh, didLoad, loadArg,
                   released, factory, shown, reuse, bpc, inUpdate, updArg>>

\* endUpdates returns
PbuEndReturn(v) ==
    /\ cur = v
    /\ msg.sel = "endUpdates"
    /\ borrow' = [borrow EXCEPT ![v] = Release(@, msg.access)]
    /\ msg' = NoMsg
    /\ bpc' = bpc + 1
    /\ event' = NoEvent
    /\ UNCHANGED <<nsarray, regVars, thrVars, cur, wpc, vtype, wrapper, boxAddr, heap,
                   native, ivars, wired, attached, value, uh, didLoad, loadArg,
                   released, factory, shown, reuse, inUpdate, updArg, log>>

\* perform_batch_updates returns
PbuReturn(v) ==
    /\ cur = v
    /\ bpc = Len(perform_batch_updates) + 1
    /\ bpc' = 0
    /\ cur' = 0
    /\ log' = <<>>
    /\ updArg' = NoWrapper
    /\ event' = NoEvent
    /\ UNCHANGED <<nsarray, regVars, thrVars, wpc, vtype, wrapper, boxAddr, heap,
                   native, ivars, wired, attached, value, uh, didLoad, loadArg,
                   released, factory, shown, reuse, borrow, msg, inUpdate>>

\* ------------------------------------------------------------ NSArray
\* The objects an array can hold, as the host runtime's pointers to them.
Objects == 1..MaxObjects

\* The closures handed to NSArray::map in this model: each turns an object
\* pointer into a Rust value.
Transforms == {"double", "negate"}

transform(f, item) == IF f = "double" THEN 2 * item ELSE 0 - item

NoArray == [pc |-> "none", items |-> <<>>, f |-> "none", count |-> 0,
            index |-> 0, out |-> <<>>, calls |-> <<>>]

ArrayInit == nsarray = NoArray

\* An NSArray that answers objectAtIndex: with the element after the one
\* asked for, going round at the end.
objectAtIndex_Next(items, index) == items[((index + 1) % Len(items)) + 1]

\* msg_send![objc, objectAtIndex: index]: NSArray counts from 0.
objectAtIndex(items, index) == items[index + 1]

\* NSArray::count
count(items) == Len(items)

\* NSArray::new(objects): arrayWithObjects:count: over the slice
NSArrayNew(objects) ==
    /\ nsarray.pc = "none"
    /\ nsarray' = [NoArray EXCEPT !.pc = "array", !.items = objects]
    /\ UNCHANGED <<regVars, thrVars, viewVars>>

\* NSArray::map(transform): let count = self.count();
NSArrayMapEnter(f) ==
    /\ nsarray.pc = "array"
    /\ nsarray' = [nsarray EXCEPT !.pc = "map", !.f = f,
                                  !.count = count(nsarray.items),
                                  !.index = 0, !.out = <<>>, !.calls = <<>>]
    /\ UNCHANGED <<regVars, thrVars, viewVars>>

\* one turn of (0..count).map(|index| { objectAtIndex: index; transform(item) })
NSArrayMapItem ==
    /\ nsarray.pc = "map"
    /\ nsarray.index < nsarray.count
    /\ LET item == objectAtIndex(nsarray.items, nsarray.index)
       IN  nsarray' = [nsarray EXCEPT
                          !.out = Append(@, transform(nsarray.f, item)),
                          !.calls = Append(@, nsarray.index),
                          !.index = @ + 1]
    /\ UNCHANGED <<regVars, thrVars, viewVars>>

\* .collect(): the range is exhausted and the Vec is returned
NSArrayMapCollect ==
    /\ nsarray.pc = "map"
    /\ nsarray.index >= nsarray.count
    /\ nsarray' = [nsarray EXCEPT !.pc = "returned"]
    /\ UNCHANGED <<regVars, thrVars, viewVars>>

ArrayNext ==
    \/ \E n \in 0..MaxLen : \E objects \in [1..n -> Objects] : NSArrayNew(objects)
    \/ \E f \in Transforms : NSArrayMapEnter(f)
    \/ NSArrayMapItem
    \/ NSArrayMapCollect

RegistryInitStates ==
    /\ \E taken \in {{}, {PlainKey[2]}, {"Gate"}} : RegistryInit(taken)
    /\ ThreadsInit
    /\ ViewsInit
    /\ ArrayInit

RegistryNext ==
    \/ \E t \in Threads : RtcEnter(t)
    \/ \E t \in Threads : RtcBlock(t)
    \/ \E t \in Threads : RtcSkip(t)
    \/ \E t \in Threads : RtcPoisoned(t)
    \/ \E t \in Threads : RtcDeclOk(t)
    \/ \E t \in Threads : RtcDeclFail(t)
    \/ \E t \in Threads : RtcRegister(t)
    \/ \E t \in Threads : RtcComplete(t)
    \/ \E t \in Threads : RtcReturn(t)
    \/ \E t \in Threads, T \in RegistryTextTypes : RegisterWithDelegate(t, T)
    \/ \E t \in Threads, T \in RegistryTextTypes : RegisterWithDelegateFatal(t, T)

SpecRegistry == RegistryInitStates /\ [][RegistryNext]_vars

\* The registry of the delegate classes alone, called with every behaviour
\* type, two of which bear the same name.
NamesNext ==
    \/ \E t \in Threads, T \in TextTypes : RegisterWithDelegate(t, T)
    \/ \E t \in Threads, T \in TextTypes : RegisterWithDelegateFatal(t, T)

SpecNames == RegistryInitStates /\ [][NamesNext]_vars

Init ==
    /\ RegistryInit({})
    /\ ThreadsInit
    /\ ViewsInit
    /\ ArrayInit

Next ==
    \/ \E T \in ViewTextTypes : TextWithRegister(T)
    \/ \E v \in Views : TextBoxNew(v)
    \/ \E v \in Views : TextNativeNew(v)
    \/ \E v \in Views : TextSetIvar(v)
    \/ \E v \in Views : TextInit(v)
    \/ \E v \in Views : TextDidLoad(v)
    \/ \E v \in Views : TextReturn(v)
    \/ \E T \in ListTypes : ListWithRegister(T)
    \/ \E v \in Views : ListCommonInit(v)
    \/ \E v \in Views : ListBoxNew(v)
    \/ \E v \in Views : ListSetIvar(v)
    \/ \E v \in Views : ListSetDelegate(v)
    \/ \E v \in Views : ListBuild(v)
    \/ \E v \in Views : ListDidLoad(v)
    \/ \E v \in Views : ListReturn(v)
    \/ \E v \in Views : Attach(v)
    \/ \E v \in Views : CloneAsHandle(v)
    \/ \E v \in Views : TextDrop(v)
    \/ \E v \in Views : DropHandle(v)
    \/ \E v \in Views : ListDrop(v)
    \/ \E v \in Views, s \in Strings : TextEdit(v, s)
    \/ \E v \in Views, sel \in ListClassConfig("RowSource").methods : ListCallback(v, sel)
    \/ \E v \in Views : ApplyShouldBeginEditing(v)

\* Construction, dispatch and drop: the wrappers and the native toolkit's
\* callbacks.
Spec == Init /\ [][Next]_vars

\* Construction, use and drop of the wrappers and their handle clones: every
\* step that writes a wrapper, a Box or an instance variable.
OwnershipNext ==
    \/ \E T \in ViewTextTypes : TextWithRegister(T)
    \/ \E v \in Views : TextBoxNew(v)
    \/ \E v \in Views : TextNativeNew(v)
    \/ \E v \in Views : TextSetIvar(v)
    \/ \E v \in Views : TextInit(v)
    \/ \E v \in Views : TextDidLoad(v)
    \/ \E v \in Views : TextReturn(v)
    \/ \E T \in ListTypes : ListWithRegister(T)
    \/ \E v \in Views : ListCommonInit(v)
    \/ \E v \in Views : ListBoxNew(v)
    \/ \E v \in Views : ListSetIvar(v)
    \/ \E v \in Views : ListSetDelegate(v)
    \/ \E v \in Views : ListBuild(v)
    \/ \E v \in Views : ListDidLoad(v)
    \/ \E v \in Views : ListReturn(v)
    \/ \E v \in Views : Attach(v)
    \/ \E v \in Views : CloneAsHandle(v)
    \/ \E v \in Views : SetBackgroundColor(v)
    \/ \E v \in Views : TextDrop(v)
    \/ \E v \in Views : DropHandle(v)
    \/ \E v \in Views : ListDrop(v)

SpecOwnership == Init /\ [][OwnershipNext]_vars

\* Text views whose delegate keeps the defaults or panics, on screen and
\* edited.
FailureNext ==
    \/ \E T \in FailureTextTypes : TextWithRegister(T)
    \/ \E v \in Views : TextBoxNew(v)
    \/ \E v \in Views : TextNativeNew(v)
    \/ \E v \in Views : TextSetIvar(v)
    \/ \E v \in Views : TextInit(v)
    \/ \E v \in Views : TextDidLoad(v)
    \/ \E v \in Views : TextReturn(v)
    \/ \E v \in Views : Attach(v)
    \/ \E v \in Views : TextDrop(v)
    \/ \E v \in Views, s \in Strings : TextEdit(v, s)
    \/ \E v \in Views : ApplyShouldBeginEditing(v)

SpecFailure == Init /\ [][FailureNext]_vars

\* List views and their rows: vendors registered, rows dequeued by user code
\* and by the table view, rows recycled.
RowsNext ==
    \/ \E T \in ListTypes : ListWithRegister(T)
    \/ \E v \in Views : ListCommonInit(v)
    \/ \E v \in Views : ListBoxNew(v)
    \/ \E v \in Views : ListSetIvar(v)
    \/ \E v \in Views : ListSetDelegate(v)
    \/ \E v \in Views : ListBuild(v)
    \/ \E v \in Views : ListDidLoad(v)
    \/ \E v \in Views : ListReturn(v)
    \/ \E v \in Views, w \in ListWrappers, i \in Identifiers : Register(v, w, i)
    \/ \E v \in Views, w \in ListWrappers, i \in Identifiers : UserDequeue(v, w, i)
    \/ \E v \in Views, i \in Identifiers : DataSourceDequeue(v, i)
    \/ \E v \in Views, r \in RowKinds : Recycle(v, r)
    \/ \E v \in Views, op \in RowOps : RowOpSend(v, op)
    \/ \E v \in Views : RowOpReturn(v)

SpecRows == Init /\ [][RowsNext]_vars

\* List views and their row operations, alone and in batches, with the
\* table view calling back for its rows; the delegate registers its vendors
\* on the handle it dequeues from.
BatchNext ==
    \/ \E T \in ListTypes : ListWithRegister(T)
    \/ \E v \in Views : ListCommonInit(v)
    \/ \E v \in Views : ListBoxNew(v)
    \/ \E v \in Views : ListSetIvar(v)
    \/ \E v \in Views : ListSetDelegate(v)
    \/ \E v \in Views : ListBuild(v)
    \/ \E v \in Views : ListDidLoad(v)
    \/ \E v \in Views : ListReturn(v)
    \/ \E v \in Views, i \in Identifiers : Register(v, "handle", i)
    \/ \E v \in Views, i \in Identifiers : DataSourceDequeue(v, i)
    \/ \E v \in Views, op \in RowOps : RowOpSend(v, op)
    \/ \E v \in Views : RowOpReturn(v)
    \/ \E v \in Views : PbuEnter(v)
    \/ \E v \in Views : PbuBeginUpdates(v)
    \/ \E v \in Views : PbuUpdate(v)
    \/ \E v \in Views : PbuUpdateReturn(v)
    \/ \E v \in Views : PbuEndUpdates(v)
    \/ \E v \in Views : PbuEndReturn(v)
    \/ \E v \in Views : PbuReturn(v)

SpecBatch == Init /\ [][BatchNext]_vars

\* An NSArray built from a slice and mapped over once.
SpecArray == Init /\ [][ArrayNext]_vars

\* ------------------------------------------------------------ properties

\* C1: every registry call made with one (base class, behaviour-type name)
\* pair returns the class token that the first such call returned.
RegistrationIdempotent ==
    \A p, q \in returned : p[1] = q[1] => p[2] = q[2]

RepeatedRegistration ==
    /\ retCount[PlainKey] >= 2
    /\ retCount[KeyOf("ConsoleLogger")] >= 2

\* C2: when several threads race on the first register_textview_class, the
\* host runtime registers the class at most once, exactly once before any
\* thread gets past call_once, and no thread returns the null token.
OnceBarrierRaceSafe ==
    /\ declCount[PlainKey[2]] <= 1
    /\ \A t \in Threads : tpc[t] = "read" =>
          /\ INIT = "complete"
          /\ declCount[PlainKey[2]] = 1
          /\ TEXTVIEW_CLASS # Null
    /\ \A p \in returned : p[1] = PlainKey =>
          /\ p[2] # Null
          /\ p[2] = hostClasses[PlainKey[2]]

ConcurrentFirstUse ==
    /\ retCount[PlainKey] >= 2
    /\ \E t \in waited : tpc[t] = "idle" /\ tcalls[t] >= 1

\* C3: did_load is called exactly once per wrapper built with a behaviour,
\* and no trampoline of the view fires before it.
DidLoadOnceBeforeTrampolines ==
    /\ \A v \in Views :
          /\ didLoad[v] <= 1
          /\ wpc[v] \in {"loaded", "ready", "dropped"} => didLoad[v] = 1
    /\ TrampolineFired => didLoad[event.view] = 1

\* C4: did_load runs inside `with`, after the native object exists, its
\* CallbackSlot holds the delegate's address and the anchors are built, and
\* before the wrapper is returned; what it receives is a handle clone of the
\* wrapper under construction: no delegate, the same native object, and for
\* a TextView the is_handle flag.
DidLoadSynchronousWithHandle ==
    /\ \A v \in Views :
          /\ wpc[v] = "ready" => didLoad[v] = 1
          /\ didLoad[v] > 0 =>
                /\ loadArg[v].delegate = "None"
                /\ loadArg[v].objc = v
                /\ loadArg[v].anchors
                /\ vtype[v] \in TextTypes => loadArg[v].is_handle
    /\ event.kind = "did_load" =>
          /\ cur = event.view
          /\ wpc[event.view] = "loaded"
          /\ native[event.view] # Null
          /\ boxAddr[event.view] # Null
          /\ CallbackSlot(event.view) = boxAddr[event.view]
          /\ wrapper[event.view].anchors
          /\ wrapper[event.view].objc = loadArg[event.view].objc
          /\ wrapper[event.view].delegate = "None"

DidLoadCalled ==
    /\ event.kind = "did_load"
    /\ IsText(event.view)
    /\ \E u \in Views : IsList(u) /\ didLoad[u] = 1

\* C5: whenever a trampoline reads a CallbackSlot, the delegate whose
\* address the slot holds has not been released.
NoTrampolineAfterRelease ==
    TrampolineFired => released[event.view] = 0

\* C6: dropping a handle clone while the owning wrapper is alive leaves the
\* native object valid, its instance variables (the CallbackSlot among them)
\* and the delegate's Box untouched, and the view where it is in the
\* hierarchy.
HandleDropLeavesOwnerIntact ==
    [][\A v \in Views :
          (wpc[v] = "ready" /\ uh'[v] < uh[v]) =>
              /\ wpc'[v] = "ready"
              /\ native[v] # Null
              /\ native'[v] = native[v]
              /\ ivars'[v] = ivars[v]
              /\ heap' = heap
              /\ released'[v] = 0
              /\ attached'[v] = attached[v]]_vars

HandleDroppedBeforeOwner ==
    /\ event.kind = "drop_handle"
    /\ wpc[event.view] = "ready"
    /\ attached[event.view]
    /\ uh[event.view] = 0

CallbackSlotWrittenOnce ==
    [][\A v \in Views :
          /\ native'[v] # Null =>
                Cardinality(DOMAIN ivars'[v] \cap
                    {TEXTVIEW_DELEGATE_PTR, LISTVIEW_DELEGATE_PTR}) = 1
          /\ (CallbackSlot(v) # Null /\ native'[v] # Null) =>
                CallbackSlot(v)' = CallbackSlot(v)
          /\ (CallbackSlot(v) = Null /\ CallbackSlot(v)' # Null) =>
                /\ cur = v
                /\ wpc'[v] = "slotset"
                /\ CallbackSlot(v)' = boxAddr[v]]_vars

SlotOutlivesWrapper ==
    \E v \in Views :
        /\ IsText(v)
        /\ wpc[v] = "dropped"
        /\ native[v] # Null
        /\ CallbackSlot(v) # Null
        /\ ivars[v][BACKGROUND_COLOR] = ColorId

\* C9: the should-begin-editing trampoline answers YES exactly when the
\* behaviour's text_should_begin_editing is true of the view's current text;
\* the behaviour that refuses the empty text gives NO for "" and YES for "x".
ShouldBeginEditingFaithful ==
    event.kind = "decision" =>
        /\ event.value = value[event.view]
        /\ (event.result = YES) <=>
               text_should_begin_editing(vtype[event.view], event.value)
        /\ (event.result = NO) <=>
               ~text_should_begin_editing(vtype[event.view], event.value)
        /\ vtype[event.view] = "Gate" =>
               /\ event.value = "" => event.result = NO
               /\ event.value = "x" => event.result = YES

DecisionOnNonEmptyText ==
    /\ event.kind = "decision"
    /\ vtype[event.view] = "Gate"
    /\ event.value = "x"
    /\ event.result = YES

\* C10: an edit of a view built with TextView::with proceeds only if the
\* behaviour's text_should_begin_editing permits it for the current text.
BehaviourGatesEdit ==
    (event.kind = "edit" /\ event.result = YES /\ released[event.view] = 0) =>
        text_should_begin_editing(vtype[event.view], event.before)

\* C11: a call of the should-begin-editing trampoline always ends by
\* returning YES or NO, and YES whatever the text when the behaviour keeps
\* the trait's default text_should_begin_editing.
DecisionAlwaysBoolean ==
    event.sel = "textShouldBeginEditing:" =>
        /\ event.outcome = "returned"
        /\ event.result \in {YES, NO}
        /\ ~OverridesShouldBegin(vtype[event.view]) => event.result = YES

\* C12: when the behaviour's text_did_change fails inside the trampoline the
\* failure stays inside it: the call returns to the toolkit, the process
\* goes on, and wrapper, CallbackSlot and registry are as before.
TextDidChangeFailureSwallowed ==
    (event.sel = "textDidChange:" /\ event.target # 0
        /\ Panics(vtype[event.view], "text_did_change", event.value)) =>
            /\ event.outcome = "returned"
            /\ cur # Halted

\* C13: when the host runtime already has a class of the name, declared
\* outside the registry, no registry call for that name ever returns a
\* token, nothing is registered under it, and once the declaration has
\* failed no caller runs it again.
FatalOnDeclarationFailure ==
    /\ \A k \in Keys : TakenOutside(k[2]) =>
          /\ retCount[k] = 0
          /\ \A p \in returned : p[1] # k
          /\ CLASSES[k].token = Null
    /\ TakenOutside(PlainKey[2]) =>
          /\ TEXTVIEW_CLASS = Null
          /\ INIT # "complete"
          /\ \A t \in Threads : tpc[t] \notin {"register", "closing", "read"}
    /\ INIT = "poisoned" =>
          \A t \in Threads : tpc[t] \notin {"decl", "register", "closing", "read"}

DeclarationFailedThenCalledAgain ==
    /\ TakenOutside(PlainKey[2])
    /\ INIT = "poisoned"
    /\ \A t \in Threads : tpc[t] = "panicked"
    /\ \E t \in Threads : t \in waited

\* C14: a registry entry that exists is never removed or replaced, whatever
\* wrappers and handles are built and dropped, and the registry is written
\* only by the registration that opens the first `with` of a behaviour type.
RegistryEntriesPermanent ==
    [][/\ \A k \in Keys : CLASSES[k].token # Null => CLASSES'[k] = CLASSES[k]
       /\ \A n \in HostNames : hostClasses[n] # Null => hostClasses'[n] = hostClasses[n]
       /\ TEXTVIEW_CLASS # Null => TEXTVIEW_CLASS' = TEXTVIEW_CLASS
       /\ regVars' # regVars =>
             \E T \in BehaviorTypes :
                 /\ cur = 0 /\ cur' \in Views
                 /\ wpc'[cur'] = "registered"
                 /\ vtype'[cur'] = T
                 /\ CLASSES[KeyOf(T)].token = Null
                 /\ CLASSES'[KeyOf(T)].token # Null
                 /\ \A k \in Keys \ {KeyOf(T)} : CLASSES'[k] = CLASSES[k]]_vars

EntryReusedAfterDrop ==
    \E u, v \in Views :
        /\ wpc[v] = "dropped"
        /\ released[v] = 1
        /\ cur = u /\ wpc[u] = "registered"
        /\ vtype[u] = "Gate"
        /\ declCount[subclass_name("Gate")] = 1
        /\ CLASSES[KeyOf("Gate")].token # Null

\* C15: the Box of a view's delegate is allocated in `with` and stays
\* allocated as long as the owning wrapper lives; it is freed exactly once,
\* by the drop of the owning wrapper, and the drop of a handle clone frees
\* nothing.
BehaviorReleasedOnceByOwner ==
    /\ \A v \in Views :
          /\ released[v] <= 1
          /\ released[v] = 1 <=> wpc[v] = "dropped"
          /\ (\/ wpc[v] \in {"boxed", "slotset", "wired", "built", "loaded", "ready"}
              \/ wpc[v] = "allocated" /\ IsText(v)) =>
                /\ boxAddr[v] \in Addrs
                /\ heap[boxAddr[v]] = v
          /\ wpc[v] = "ready" => wrapper[v].delegate = "Some"
    /\ \A a \in Addrs : heap[a] # 0 => boxAddr[heap[a]] = a
    /\ event.kind = "drop_handle" =>
          released[event.view] = IF wpc[event.view] = "dropped" THEN 1 ELSE 0

HandleDroppedAfterOwner ==
    /\ event.kind = "drop_handle"
    /\ wpc[event.view] = "dropped"
    /\ released[event.view] = 1
    /\ \E u \in Views : u # event.view /\ wpc[u] = "ready" /\ released[u] = 0

\* C16: the drop of a TextView that is no handle takes its native view out
\* of its superview; the drop of a handle clone leaves the view where it is
\* in the hierarchy.
DropDetachesUnlessHandle ==
    [][\A v \in Views :
          /\ (IsText(v) /\ wpc[v] = "ready" /\ wpc'[v] = "dropped") => ~attached'[v]
          /\ uh'[v] < uh[v] => attached'[v] = attached[v]]_vars

OwnerDroppedWhileAttached ==
    /\ event.kind = "drop_owner"
    /\ event.result = YES
    /\ uh[event.view] > 0
    /\ native[event.view] # Null
    /\ ~attached[event.view]

\* C17: perform_batch_updates sends beginUpdates once, then runs the update
\* closure once on a handle clone of the same ListView, then sends
\* endUpdates once; every row operation of the closure lies between the two.
BatchUpdatesOrdered ==
    bpc > 0 =>
        /\ \A i \in 1..Len(log) :
              /\ log[i] = "beginUpdates" <=> i = 1
              /\ log[i] = "update" <=> i = 2
              /\ log[i] = "endUpdates" => i = Len(log) /\ i >= 3
        /\ inUpdate =>
              /\ Len(log) >= 2
              /\ InNativeBatch
              /\ updArg.delegate = "None"
              /\ cur \in Views => updArg.objc = wrapper[cur].objc
        /\ (msg # NoMsg /\ msg.sel # "endUpdates") => InNativeBatch
        /\ bpc = Len(perform_batch_updates) + 1 =>
              /\ Len(log) >= 3
              /\ log[1] = "beginUpdates"
              /\ log[2] = "update"
              /\ log[Len(log)] = "endUpdates"

BatchWithRowOperationDone ==
    /\ bpc = Len(perform_batch_updates) + 1
    /\ Len(log) = 4
    /\ log[3] = SelectorOf("insert_rows")

\* C18: while the update closure of perform_batch_updates runs, and while
\* beginUpdates or endUpdates is being sent, perform_batch_updates holds no
\* exclusive access to the native object: the closure's row operations find
\* it free, and no access taken inside a batch meets a conflicting one.
NoExclusiveAccessInBatch ==
    /\ (cur \in Views /\ inUpdate /\ msg = NoMsg) => borrow[cur] = NoBorrow
    /\ (cur \in Views /\ msg.sel = "endUpdates") =>
          /\ ~borrow[cur].writer
          /\ msg.access = "shared"
    /\ (event.outcome = "double_lock" /\ event.kind # "none") => bpc = 0

DequeueReenteredFromEndUpdates ==
    /\ event.kind = "dequeue"
    /\ event.outcome = "returned"
    /\ msg.sel = "endUpdates"
    /\ \E i \in 1..Len(log) : log[i] = SelectorOf("insert_rows")

\* C19: dequeue is never entered while an operation holds exclusive access
\* to the same native object.
NoDequeueUnderExclusive ==
    event.kind = "dequeue" => event.outcome # "double_lock"

\* C20: dequeue(identifier) returns a row of the reuse queue tagged with the
\* identifier when there is one; otherwise it returns a new row built by the
\* vendor registered under the identifier on that wrapper and tagged with
\* the identifier; so every row of a table is filed under the identifier
\* of the vendor that built it.
DequeueCachedElseVendor ==
    [][(event'.kind = "dequeue" /\ event'.outcome = "returned") =>
          LET v == event'.view
              i == event'.id
              r == event'.row
              queued == {k \in RowKinds : k.tag = i /\ reuse[v][k] > 0}
          IN  /\ r.tag = i
              /\ r.by = i
              /\ IF queued # {}
                 THEN /\ event'.path = "cached"
                      /\ r \in queued
                      /\ reuse'[v][r] = reuse[v][r] - 1
                 ELSE /\ event'.path = "vendor"
                      /\ i \in factory[v][event'.wrap]
                      /\ reuse' = reuse
              /\ event'.sel # "none" => shown'[v][r] = shown[v][r] + 1]_vars

RecycledRowDequeued ==
    /\ event.kind = "dequeue"
    /\ event.outcome = "returned"
    /\ event.path = "cached"
    /\ event.sel = "tableView:viewForTableColumn:row:"
    /\ event.row = [tag |-> event.id, by |-> event.id]

\* C21: from the moment `with` has written the CallbackSlot until the
\* wrapper it returns is dropped, the slot holds the address of the Box
\* that holds the wrapper's delegate, and that Box is live: neither the
\* into_raw/from_raw round trip, nor did_load, nor the store into the
\* wrapper's delegate field, nor any later operation moves the delegate.
SlotHoldsDelegateAddress ==
    \A v \in Views :
        /\ wpc[v] \in {"slotset", "wired", "built", "loaded", "ready"} =>
              /\ boxAddr[v] \in Addrs
              /\ CallbackSlot(v) = boxAddr[v]
              /\ heap[boxAddr[v]] = v
        /\ wpc[v] = "ready" => wrapper[v].delegate = "Some"

DelegateInPlaceAfterOtherDrop ==
    \E v \in Views, u \in Views :
        /\ u # v
        /\ wpc[v] = "ready"
        /\ didLoad[v] = 1
        /\ wrapper[v].delegate = "Some"
        /\ CallbackSlot(v) = boxAddr[v]
        /\ wpc[u] = "dropped"
        /\ released[u] = 1

\* C22: registrations under different behaviour-type names return
\* different class tokens; the class returned for a name carries the
\* callback table and the trampolines of the behaviour type whose call
\* declared it, the first one made under that name; a registration never
\* changes the class of another name, nor one that exists already.
ClassesDistinctPerName ==
    [][/\ \A p, q \in returned' :
             p[1][2] # q[1][2] => (p[2] # q[2] /\ p[2] # Null /\ q[2] # Null)
       /\ \A k \in DelegateKeys :
             CLASSES[k].token # Null => CLASSES'[k] = CLASSES[k]
       /\ \A k \in DelegateKeys : retCount'[k] # retCount[k] =>
             LET T == event'.id
             IN  /\ event'.kind = "register"
                 /\ KeyOf(T) = k
                 /\ event'.target = CLASSES'[k].token
                 /\ \A j \in DelegateKeys \ {k} : CLASSES'[j] = CLASSES[j]
                 /\ IF CLASSES[k].token = Null
                    THEN /\ event'.outcome = "declare"
                         /\ CLASSES'[k].T = T
                         /\ CLASSES'[k].methods = DelegateClassConfig(T).methods
                    ELSE /\ event'.outcome = "cached"
                         /\ CLASSES'[k] = CLASSES[k]]_vars

SecondTypeUnderRegisteredName ==
    /\ event.kind = "register"
    /\ event.id = "GateCopy"
    /\ event.outcome = "cached"
    /\ CLASSES[KeyOf("GateCopy")].T = "Gate"
    /\ CLASSES[KeyOf("ConsoleLogger")].token \notin {Null, event.target}

\* C23: a ListView and the handle made from it by clone_as_handle have
\* each a vendor table of their own, the handle's empty at first: register
\* on one adds the vendor to that one's table and leaves the other's as it
\* was, and dequeue on one finds only the vendors of its own table.
HandleHasOwnVendorTable ==
    [][/\ \A v \in Views : wpc'[v] # "ready" =>
             \A w \in ListWrappers : factory'[v][w] = {}
       /\ event'.kind = "register_vendor" =>
             factory' = [factory EXCEPT ![event'.view][event'.wrap] =
                                            @ \cup {event'.id}]
       /\ event'.kind # "register_vendor" => factory' = factory
       /\ (event'.kind = "dequeue" /\ event'.path = "vendor") =>
             event'.id \in factory[event'.view][event'.wrap]
       /\ (event'.kind = "dequeue" /\ event'.outcome = "no_vendor") =>
             event'.id \notin factory[event'.view][event'.wrap]]_vars

VendorOfOwnerNotSeenByHandle ==
    /\ event.kind = "dequeue"
    /\ event.wrap = "handle"
    /\ event.outcome = "no_vendor"
    /\ event.id \in factory[event.view]["owner"]
    /\ factory[event.view]["handle"] # {}

\* C24: NSArray::map returns a vector as long as the array, whose i-th
\* element is transform of the object at index i; transform is called once
\* per index, in index order, and not at all for an empty array.
MapAppliesTransformInOrder ==
    /\ nsarray.pc \in {"map", "returned"} =>
          /\ nsarray.count = Len(nsarray.items)
          /\ Len(nsarray.out) = nsarray.index
          /\ nsarray.index <= nsarray.count
          /\ nsarray.calls = [i \in 1..nsarray.index |-> i - 1]
          /\ \A i \in 1..Len(nsarray.out) :
                nsarray.out[i] = transform(nsarray.f, nsarray.items[i])
    /\ nsarray.pc = "returned" =>
          /\ Len(nsarray.out) = Len(nsarray.items)
          /\ nsarray.items = <<>> => (nsarray.out = <<>> /\ nsarray.calls = <<>>)

MappedOverDistinctObjects ==
    /\ nsarray.pc = "returned"
    /\ Len(nsarray.items) = MaxLen
    /\ nsarray.items[1] # nsarray.items[2]
    /\ Len(nsarray.out) = MaxLen

====
